---------------------------- MODULE Spec2Model ----------------------------
(***************************************************************************)
(* Model of the batch image renaming tool (KakashiAI/batch-image-flair).   *)
(*                                                                         *)
(*   ImageProcessor  src/src/components/CSVUpload.tsx   lines 178-443      *)
(*   CSVUpload       src/src/components/CSVUpload.tsx   lines 1-177        *)
(*   ImageUpload     src/src/components/ImageUpload.tsx                    *)
(*   Index           src/src/pages/Index.tsx (owner of images, mapping)    *)
(*                                                                         *)
(* A JavaScript string is a sequence of one-character strings, so that     *)
(* split, includes, replace and toLowerCase are computed, not assumed.     *)
(* Each component has its own specification over the shared variables:     *)
(*   Spec        ImageProcessor with its props (images, mapping) fixed     *)
(*   SpecCSV     CSVUpload: drop a CSV file, FileReader onload, clear      *)
(*   SpecUpload  ImageUpload: drop images, remove one, clear all           *)
(***************************************************************************)
EXTENDS Integers, Sequences, FiniteSets, TLC

VARIABLES
    images,          \* Index.tsx:21      const [images, setImages]
    mapping,         \* Index.tsx:22      const [mapping, setMapping]
    processedImages, \* CSVUpload.tsx:210 published results
    isProcessing,    \* CSVUpload.tsx:211
    progress,        \* CSVUpload.tsx:212 as the exact fraction num/den
    pc,              \* where processImages is suspended: idle, decode, encode, delay
    i,               \* CSVUpload.tsx:222 loop index (1-based here)
    processed,       \* CSVUpload.tsx:220 local array of the run
    processedImage,  \* CSVUpload.tsx:235 local result of the current item
    lastSave,        \* what the last download handed to the browser (a.click())
    error,           \* CSVUpload.tsx:19
    csvFile,         \* CSVUpload.tsx:20
    readers,         \* FileReaders whose onload has not fired yet (their text)
    objectURLs,      \* previews created by URL.createObjectURL and not revoked
    revokeLog,       \* every preview handed to URL.revokeObjectURL, in order
    nextURL          \* the next preview URL the browser hands out

vars == <<images, mapping, processedImages, isProcessing, progress, pc, i,
          processed, processedImage, lastSave, error, csvFile, readers,
          objectURLs, revokeLog, nextURL>>

procVars == <<processedImages, isProcessing, progress, pc, i, processed,
              processedImage, lastSave>>
csvVars == <<error, csvFile, readers>>
uploadVars == <<objectURLs, revokeLog, nextURL>>

(***************************************************************************)
(* Bounds of the model.                                                    *)
(***************************************************************************)
MaxImages == 2
MaxMap == 2
MaxLines == 2
MaxReaders == 2
MaxURLs == 3

(***************************************************************************)
(* JavaScript string operations on sequences of characters.                *)
(***************************************************************************)
Range(s) == {s[k] : k \in 1..Len(s)}

\* String.prototype.includes
Includes(s, sub) ==
    \E k \in 0..(Len(s) - Len(sub)) : SubSeq(s, k + 1, k + Len(sub)) = sub

\* position of the last occurrence of character c in s, 0 when there is none
LastIndexOf(s, c) ==
    IF c \in Range(s) THEN CHOOSE k \in 1..Len(s) :
                             s[k] = c /\ \A j \in (k + 1)..Len(s) : s[j] # c
                      ELSE 0

LowerChar(c) ==
    CASE c = "A" -> "a" [] c = "B" -> "b" [] c = "P" -> "p" [] c = "J" -> "j"
      [] c = "G" -> "g" [] c = "O" -> "o" [] c = "L" -> "l" [] c = "D" -> "d"
      [] c = "N" -> "n" [] c = "E" -> "e" [] c = "W" -> "w" [] c = "T" -> "t"
      [] c = "X" -> "x" [] c = "Y" -> "y" [] c = "Z" -> "z"
      [] OTHER -> c

\* String.prototype.toLowerCase
ToLowerCase(s) == [k \in 1..Len(s) |-> LowerChar(s[k])]

(***************************************************************************)
(* ImageProcessor: name resolution and output name.                        *)
(***************************************************************************)
jpg == <<"j", "p", "g">>
jpeg == <<"j", "p", "e", "g">>

\* originalFileName.replace(/\.[^/.]+$/, ""): the last '.' and what follows
\* it are removed when at least one character follows and none of them is '/'
fileNameWithoutExt(originalFileName) ==
    LET p == LastIndexOf(originalFileName, ".")
    IN  IF /\ p > 0
           /\ p < Len(originalFileName)
           /\ \A k \in (p + 1)..Len(originalFileName) : originalFileName[k] # "/"
        THEN SubSeq(originalFileName, 1, p - 1)
        ELSE originalFileName

\* the predicate of mapping.find
MatchesFind(m, originalFileName) ==
    \/ m.currentName = originalFileName
    \/ m.currentName = fileNameWithoutExt(originalFileName)
    \/ Includes(originalFileName, m.currentName)
    \/ Includes(fileNameWithoutExt(originalFileName), m.currentName)

\* mutant: the scan keeps the last entry that matches
FindLastIndex(map, originalFileName) ==
    LET hits == {k \in 1..Len(map) : MatchesFind(map[k], originalFileName)}
    IN  IF hits = {} THEN 0 ELSE CHOOSE k \in hits : \A j \in hits : j <= k

\* Array.prototype.find: index of the first element that satisfies the
\* predicate, 0 standing for undefined
FindIndex(map, originalFileName) ==
    LET hits == {k \in 1..Len(map) : MatchesFind(map[k], originalFileName)}
    IN  IF hits = {} THEN 0 ELSE CHOOSE k \in hits : \A j \in hits : k <= j

\* mutant: an unmatched image falls back to its name without the extension
InitialNewNameStemFallback(map, originalFileName) ==
    LET k == FindIndex(map, originalFileName)
    IN  IF k = 0 THEN fileNameWithoutExt(originalFileName) ELSE map[k].newName

\* mappingEntry ? mappingEntry.newName : originalFileName
InitialNewName(map, originalFileName) ==
    LET k == FindIndex(map, originalFileName)
    IN  IF k = 0 THEN originalFileName ELSE map[k].newName

\* originalFileName.split('.').pop()?.toLowerCase() || 'jpg'
originalExt(originalFileName) ==
    LET p == LastIndexOf(originalFileName, ".")
        last == SubSeq(originalFileName, p + 1, Len(originalFileName))
    IN  IF last = <<>> THEN jpg ELSE ToLowerCase(last)

\* if (!newFileName.includes('.')) newFileName += `.${originalExt}`
newFileName(newName, originalFileName) ==
    IF "." \notin Range(newName)
    THEN newName \o <<".">> \o originalExt(originalFileName)
    ELSE newName

\* `image/${originalExt === 'jpg' ? 'jpeg' : originalExt}`, without "image/"
EncodingType(originalFileName) ==
    IF originalExt(originalFileName) = jpg THEN jpeg
                                           ELSE originalExt(originalFileName)

(***************************************************************************)
(* ImageProcessor: values.                                                 *)
(***************************************************************************)
undefined == "undefined"
NoBlob == [src |-> 0, type |-> <<>>]
NoImage == [name |-> <<>>, data |-> "none", preview |-> 0, id |-> 0]
NoResult == [originalFile |-> NoImage, newName |-> <<>>, status |-> "none",
             blob |-> NoBlob, error |-> undefined]
NoFile == [name |-> "null", text |-> <<>>]
CsvFile(text) == [name |-> "mapping.csv", text |-> text]
ZipName == <<"renamed-images.zip">>
NoSave == [kind |-> "none", name |-> <<>>, blob |-> NoBlob, files |-> <<>>]

\* const processedImage = { originalFile, newName, status: 'pending' }
NewProcessedImage(image, map) ==
    [originalFile |-> image,
     newName |-> InitialNewName(map, image.name),
     status |-> "pending",
     blob |-> NoBlob,
     error |-> undefined]

\* mutant: the fraction is computed from i instead of i + 1
ProgressOffByOne(count, total) == [num |-> (count - 1) * 100, den |-> total]

\* ((i + 1) / images.length) * 100, kept as the exact fraction
ProgressAfter(count, total) == [num |-> count * 100, den |-> total]

(***************************************************************************)
(* Inputs of the ImageProcessor specification.                             *)
(***************************************************************************)
FileNames == { <<"a", ".", "P">>, <<"a", "b">>, <<"b", ".">> }

\* what the bytes of a file are to the browser: "ok" decodes and encodes,
\* "corrupt" fires img.onerror, "unencodable" decodes but canvas.toBlob
\* calls back with null (a canvas of zero width or height)
FileData == {"ok", "corrupt", "unencodable"}

Files == [name : FileNames, data : FileData]

Entries == { [currentName |-> <<"a">>, newName |-> <<"x">>],
             [currentName |-> <<"a", "b">>, newName |-> <<"x", ".", "y">>],
             [currentName |-> <<"P">>, newName |-> <<"x", ".", "y">>],
             [currentName |-> <<"b">>, newName |-> <<"x">>] }

SeqsUpTo(S, n) == UNION {[1..k -> S] : k \in 0..n}

ImageLists ==
    { [k \in 1..Len(files) |-> [name |-> files[k].name, data |-> files[k].data,
                                preview |-> k, id |-> k]] :
        files \in SeqsUpTo(Files, MaxImages) }

MappingLists == SeqsUpTo(Entries, MaxMap)

(***************************************************************************)
(* ImageProcessor: processImages, split at its awaits.                     *)
(***************************************************************************)
canProcess == Len(images) > 0 /\ Len(mapping) > 0

\* lines 223-251 for item k: resolve, create the pending result, start the load
BeginItem(k) ==
    /\ i' = k
    /\ processedImage' = NewProcessedImage(images[k], mapping)
    /\ pc' = "decode"

\* lines 284-289: push, publish progress and results, wait 100 ms
Commit(result) ==
    /\ processed' = Append(processed, result)
    /\ progress' = ProgressAfter(i, Len(images))
    /\ processedImages' = Append(processed, result)
    /\ processedImage' = result
    /\ pc' = "delay"

\* lines 214-251: the click on Start Processing up to the first await
ProcessImages ==
    /\ canProcess
    /\ ~isProcessing
    /\ pc = "idle"
    /\ isProcessing' = TRUE
    /\ progress' = [num |-> 0, den |-> 1]
    /\ processed' = <<>>
    /\ BeginItem(1)
    /\ UNCHANGED <<images, mapping, processedImages, lastSave>>
    /\ UNCHANGED <<csvVars, uploadVars>>

\* mutant: the status is set to 'processed' before the blob exists
ImageLoadedMarksProcessed ==
    /\ pc = "decode"
    /\ processedImage.originalFile.data # "corrupt"
    /\ processedImage' =
         [processedImage EXCEPT
            !.newName = newFileName(processedImage.newName,
                                    processedImage.originalFile.name),
            !.status = "processed"]
    /\ pc' = "encode"
    /\ UNCHANGED <<images, mapping, processedImages, isProcessing, progress, i,
                   processed, lastSave>>
    /\ UNCHANGED <<csvVars, uploadVars>>

\* img.onload: lines 253-275, up to the await of canvas.toBlob
ImageLoaded ==
    /\ pc = "decode"
    /\ processedImage.originalFile.data # "corrupt"
    /\ processedImage' =
         [processedImage EXCEPT
            !.newName = newFileName(processedImage.newName,
                                    processedImage.originalFile.name)]
    /\ pc' = "encode"
    /\ UNCHANGED <<images, mapping, processedImages, isProcessing, progress, i,
                   processed, lastSave>>
    /\ UNCHANGED <<csvVars, uploadVars>>

\* mutant: no catch, the rejection ends processImages
ImageErrorAborts ==
    /\ pc = "decode"
    /\ processedImage.originalFile.data = "corrupt"
    /\ pc' = "idle"
    /\ UNCHANGED <<images, mapping, processedImages, isProcessing, progress, i,
                   processed, processedImage, lastSave>>
    /\ UNCHANGED <<csvVars, uploadVars>>

\* img.onerror rejects with an Event, which is no Error: lines 279-289
ImageError ==
    /\ pc = "decode"
    /\ processedImage.originalFile.data = "corrupt"
    /\ Commit([processedImage EXCEPT !.status = "failed",
                                     !.error = "Processing failed"])
    /\ UNCHANGED <<images, mapping, isProcessing, i, lastSave>>
    /\ UNCHANGED <<csvVars, uploadVars>>

\* canvas.toBlob yields a blob: lines 277-278, 284-289
BlobCreated ==
    /\ pc = "encode"
    /\ processedImage.originalFile.data = "ok"
    /\ Commit([processedImage EXCEPT
                 !.blob = [src |-> processedImage.originalFile.preview,
                           type |-> EncodingType(processedImage.originalFile.name)],
                 !.status = "processed"])
    /\ UNCHANGED <<images, mapping, isProcessing, i, lastSave>>
    /\ UNCHANGED <<csvVars, uploadVars>>

\* canvas.toBlob yields null: reject(new Error('Failed to create blob'))
BlobFailed ==
    /\ pc = "encode"
    /\ processedImage.originalFile.data = "unencodable"
    /\ Commit([processedImage EXCEPT !.status = "failed",
                                     !.error = "Failed to create blob"])
    /\ UNCHANGED <<images, mapping, isProcessing, i, lastSave>>
    /\ UNCHANGED <<csvVars, uploadVars>>

\* the 100 ms timer fires and a next image exists: lines 222-251
NextItem ==
    /\ pc = "delay"
    /\ i < Len(images)
    /\ BeginItem(i + 1)
    /\ UNCHANGED <<images, mapping, processedImages, isProcessing, progress,
                   processed, lastSave>>
    /\ UNCHANGED <<csvVars, uploadVars>>

\* mutant: the run returns without clearing the in-progress flag
FinishKeepsProcessing ==
    /\ pc = "delay"
    /\ i >= Len(images)
    /\ pc' = "idle"
    /\ UNCHANGED <<images, mapping, processedImages, isProcessing, progress, i,
                   processed, processedImage, lastSave>>
    /\ UNCHANGED <<csvVars, uploadVars>>

\* the 100 ms timer fires after the last image: line 292
Finish ==
    /\ pc = "delay"
    /\ i >= Len(images)
    /\ isProcessing' = FALSE
    /\ pc' = "idle"
    /\ UNCHANGED <<images, mapping, processedImages, progress, i, processed,
                   processedImage, lastSave>>
    /\ UNCHANGED <<csvVars, uploadVars>>

(***************************************************************************)
(* ImageProcessor: downloads.                                              *)
(***************************************************************************)
\* processedImages.filter(img => img.status === 'processed' && img.blob)
successfulImages(results) ==
    SelectSeq(results, LAMBDA r : r.status = "processed" /\ r.blob # NoBlob)

\* JSZip: zip.file(name, data) adds the file or replaces the one of that name
RECURSIVE ZipFiles(_)
ZipFiles(results) ==
    IF results = <<>> THEN <<>>
    ELSE LET rest == ZipFiles(SubSeq(results, 1, Len(results) - 1))
             r == results[Len(results)]
         IN  SelectSeq(rest, LAMBDA f : f.name # r.newName)
               \o << [name |-> r.newName, blob |-> r.blob] >>

\* lines 295-306, behind the button of line 427
DownloadSingle ==
    \E k \in 1..Len(processedImages) :
        /\ processedImages[k].status = "processed"
        /\ processedImages[k].blob # NoBlob
        /\ lastSave' = [kind |-> "file", name |-> processedImages[k].newName,
                        blob |-> processedImages[k].blob, files |-> <<>>]
        /\ UNCHANGED <<images, mapping, processedImages, isProcessing, progress,
                       pc, i, processed, processedImage>>
        /\ UNCHANGED <<csvVars, uploadVars>>

\* lines 308-327, behind the button of lines 372-387
DownloadAll ==
    /\ Len(processedImages) > 0
    /\ \E k \in 1..Len(processedImages) : processedImages[k].status = "processed"
    /\ lastSave' = [kind |-> "zip", name |-> ZipName,
                    blob |-> NoBlob,
                    files |-> ZipFiles(successfulImages(processedImages))]
    /\ UNCHANGED <<images, mapping, processedImages, isProcessing, progress,
                   pc, i, processed, processedImage>>
    /\ UNCHANGED <<csvVars, uploadVars>>

(***************************************************************************)
(* Specification of the ImageProcessor.                                    *)
(***************************************************************************)
InitProcessor ==
    /\ processedImages = <<>>
    /\ isProcessing = FALSE
    /\ progress = [num |-> 0, den |-> 1]
    /\ pc = "idle"
    /\ i = 0
    /\ processed = <<>>
    /\ processedImage = NoResult
    /\ lastSave = NoSave

InitCSV ==
    /\ error = "null"
    /\ csvFile = NoFile
    /\ readers = <<>>

InitUpload ==
    /\ objectURLs = {}
    /\ revokeLog = <<>>
    /\ nextURL = 1

Init ==
    /\ images \in ImageLists
    /\ mapping \in MappingLists
    /\ InitProcessor
    /\ InitCSV
    /\ InitUpload

Next ==
    \/ ProcessImages
    \/ ImageLoaded
    \/ ImageError
    \/ BlobCreated
    \/ BlobFailed
    \/ NextItem
    \/ Finish
    \/ DownloadSingle
    \/ DownloadAll

Spec == Init /\ [][Next]_vars

\* the batches of the lifecycle runs: every list of images, under a mapping
\* of one entry (processImages reads of the mapping only that it is not
\* empty and which name it gives)
InitRun ==
    /\ images \in ImageLists
    /\ mapping \in {<<entry>> : entry \in Entries}
    /\ InitProcessor
    /\ InitCSV
    /\ InitUpload

\* every pending image load, toBlob callback and 100 ms timer of a run
\* eventually fires; the click on Start Processing and the downloads are the
\* user's and carry no fairness
SpecFair ==
    /\ InitRun
    /\ [][Next]_vars
    /\ WF_vars(ImageLoaded)
    /\ WF_vars(ImageError)
    /\ WF_vars(BlobCreated)
    /\ WF_vars(BlobFailed)
    /\ WF_vars(NextItem)
    /\ WF_vars(Finish)


(***************************************************************************)
(* CSVUpload: parseCSV.                                                    *)
(***************************************************************************)
WhiteSpace == {" ", "\t", "\r", "\n"}

\* String.prototype.trim
Trim(s) ==
    LET keep == {k \in 1..Len(s) : s[k] \notin WhiteSpace}
    IN  IF keep = {} THEN <<>>
        ELSE SubSeq(s, CHOOSE k \in keep : \A j \in keep : k <= j,
                       CHOOSE k \in keep : \A j \in keep : j <= k)

\* position of the first occurrence of character c in s, 0 when there is none
IndexOf(s, c) ==
    IF c \in Range(s) THEN CHOOSE k \in 1..Len(s) :
                             s[k] = c /\ \A j \in 1..(k - 1) : s[j] # c
                      ELSE 0

\* String.prototype.split with a one-character separator
RECURSIVE Split(_, _)
Split(s, c) ==
    LET p == IndexOf(s, c)
    IN  IF p = 0 THEN <<s>>
        ELSE <<SubSeq(s, 1, p - 1)>> \o Split(SubSeq(s, p + 1, Len(s)), c)

\* replace(/['"]/g, '')
StripQuotes(s) == SelectSeq(s, LAMBDA c : c \notin {"'", "\""})

\* split(',').map(col => col.trim())
TrimmedColumns(line) ==
    LET columns == Split(line, ",")
    IN  [k \in 1..Len(columns) |-> Trim(columns[k])]

\* the least element of a set of positions, 0 (for -1) when it is empty
FirstOf(hits) ==
    IF hits = {} THEN 0 ELSE CHOOSE k \in hits : \A j \in hits : k <= j

IsCurrentHeader(h) ==
    \/ Includes(h, <<"c", "u", "r", "r", "e", "n", "t">>)
    \/ Includes(h, <<"o", "l", "d">>)
    \/ Includes(h, <<"o", "r", "i", "g", "i", "n", "a", "l">>)
    \/ h = <<"f", "r", "o", "m">>

IsNewHeader(h) ==
    \/ Includes(h, <<"n", "e", "w">>)
    \/ Includes(h, <<"r", "e", "n", "a", "m", "e">>)
    \/ Includes(h, <<"t", "a", "r", "g", "e", "t">>)
    \/ h = <<"t", "o">>

\* headers.findIndex(...), 1-based, 0 standing for -1
CurrentNameIndex(headers) ==
    FirstOf({k \in 1..Len(headers) : IsCurrentHeader(headers[k])})

NewNameIndex(headers) ==
    FirstOf({k \in 1..Len(headers) : IsNewHeader(headers[k])})

\* columns[index]?.replace(/['"]/g, '') || ''
Column(columns, index) ==
    IF index <= Len(columns) THEN StripQuotes(columns[index]) ELSE <<>>

\* lines 51-61: the mappings of the data rows, in row order
RECURSIVE RowMappings(_, _, _)
RowMappings(rows, useCurrentIndex, useNewIndex) ==
    IF rows = <<>> THEN <<>>
    ELSE LET columns == TrimmedColumns(Head(rows))
             currentName == Column(columns, useCurrentIndex)
             newName == Column(columns, useNewIndex)
             rest == RowMappings(Tail(rows), useCurrentIndex, useNewIndex)
         IN  IF Len(columns) >= 2 /\ currentName # <<>> /\ newName # <<>>
             THEN <<[currentName |-> currentName, newName |-> newName]>> \o rest
             ELSE rest

Threw(message) == [threw |-> TRUE, message |-> message, mappings |-> <<>>]
Returned(mappings) == [threw |-> FALSE, message |-> "", mappings |-> mappings]

\* lines 22-64
parseCSV(text) ==
    LET lines == SelectSeq(Split(text, "\n"), LAMBDA line : Trim(line) # <<>>)
    IN  IF Len(lines) < 2
        THEN Threw("CSV must have at least a header row and one data row")
        ELSE
          LET fields == TrimmedColumns(lines[1])
              headers == [k \in 1..Len(fields) |-> ToLowerCase(fields[k])]
              currentNameIndex == CurrentNameIndex(headers)
              newNameIndex == NewNameIndex(headers)
              useCurrentIndex == IF currentNameIndex # 0 THEN currentNameIndex ELSE 1
              useNewIndex == IF newNameIndex # 0 THEN newNameIndex ELSE 2
          IN  IF (currentNameIndex = 0 \/ newNameIndex = 0) /\ Len(headers) < 2
              THEN Threw("CSV must have at least 2 columns")
              ELSE Returned(RowMappings(Tail(lines), useCurrentIndex, useNewIndex))

(***************************************************************************)
(* Inputs of the CSVUpload specifications.                                 *)
(***************************************************************************)
CsvLines ==
    { <<"o", "l", "d", ",", "n", "e", "w">>,
      <<"t", "o", ",", "f", "r", "o", "m">>,
      <<"o", "l", "d">>,
      <<"a", ",", "x">>,
      <<"b", ",">>,
      <<" ">>,
      <<"a">>,
      <<"\"", "b", "\"", ",", " ", "y", "\r">>,
      <<"a", ";", "x">>,
      <<"b", ";", "y", ";", "z", ",", "c">> }

RECURSIVE JoinLines(_)
JoinLines(ls) ==
    IF ls = <<>> THEN <<>>
    ELSE IF Len(ls) = 1 THEN ls[1]
    ELSE ls[1] \o <<"\n">> \o JoinLines(Tail(ls))

\* every text of at most MaxLines lines
CsvTexts == {JoinLines(ls) : ls \in SeqsUpTo(CsvLines, MaxLines)}

\* the files dropped on the CSV drop zone
DropTexts ==
    { <<>>,
      JoinLines(<< <<"o", "l", "d", ",", "n", "e", "w">> >>),
      JoinLines(<< <<"o", "l", "d", ",", "n", "e", "w">>, <<"a", ",", "x">> >>),
      JoinLines(<< <<"o", "l", "d", ",", "n", "e", "w">>, <<"b", ",">> >>),
      JoinLines(<< <<"t", "o", ",", "f", "r", "o", "m">>, <<"a", ",", "x">>,
                   <<"\"", "b", "\"", ",", " ", "y", "\r">> >>),
      JoinLines(<< <<"o", "l", "d">>, <<"a", ",", "x">> >>) }

RemoveAt(s, k) == SubSeq(s, 1, k - 1) \o SubSeq(s, k + 1, Len(s))

(***************************************************************************)
(* CSVUpload: handlers.                                                    *)
(***************************************************************************)
\* lines 66-73, 83: a file is dropped and a FileReader starts reading it
OnDrop ==
    \E text \in DropTexts :
        /\ Len(readers) < MaxReaders
        /\ csvFile' = CsvFile(text)
        /\ error' = "null"
        /\ readers' = Append(readers, text)
        /\ UNCHANGED <<images, mapping>>
        /\ UNCHANGED <<procVars, uploadVars>>

\* mutant: the catch branch also empties the installed mapping
ReaderOnLoadClearsOnError ==
    \E k \in 1..Len(readers) :
        LET result == parseCSV(readers[k])
        IN  /\ readers' = RemoveAt(readers, k)
            /\ IF result.threw
               THEN error' = result.message /\ mapping' = <<>>
               ELSE mapping' = result.mappings /\ UNCHANGED error
            /\ UNCHANGED <<images, csvFile>>
            /\ UNCHANGED <<procVars, uploadVars>>

\* lines 74-82: reader.onload of one of the readers in flight
ReaderOnLoad ==
    \E k \in 1..Len(readers) :
        LET result == parseCSV(readers[k])
        IN  /\ readers' = RemoveAt(readers, k)
            /\ IF result.threw
               THEN error' = result.message /\ UNCHANGED mapping
               ELSE mapping' = result.mappings /\ UNCHANGED error
            /\ UNCHANGED <<images, csvFile>>
            /\ UNCHANGED <<procVars, uploadVars>>

\* lines 95-99, behind the Clear button of line 137
ClearMapping ==
    /\ csvFile # NoFile
    /\ Len(mapping) > 0
    /\ csvFile' = NoFile
    /\ mapping' = <<>>
    /\ error' = "null"
    /\ UNCHANGED <<images, readers>>
    /\ UNCHANGED <<procVars, uploadVars>>

InitCSVUpload ==
    /\ images = <<>>
    /\ mapping = <<>>
    /\ InitProcessor
    /\ InitCSV
    /\ InitUpload

NextCSV ==
    \/ OnDrop
    \/ ReaderOnLoad
    \/ ClearMapping

SpecCSV == InitCSVUpload /\ [][NextCSV]_vars

\* parseCSV alone: one reader holds a text, and its onload parses it
InitParse ==
    /\ images = <<>>
    /\ mapping = <<>>
    /\ InitProcessor
    /\ error = "null"
    /\ \E text \in CsvTexts : csvFile = CsvFile(text) /\ readers = <<text>>
    /\ InitUpload

NextParse == ReaderOnLoad

SpecParse == InitParse /\ [][NextParse]_vars

(***************************************************************************)
(* ImageUpload.                                                            *)
(***************************************************************************)
\* the ids Math.random().toString(36).substr(2, 9) may return
Ids == {"k3x9q0a1b", "i"}

UploadFiles == { [name |-> <<"a", ".", "P">>, data |-> "ok"],
                 [name |-> <<"a", "b">>, data |-> "corrupt"] }

DropSizes == {1, 2}

\* lines 19-27: one preview URL and one random id per accepted file
OnDropImages ==
    \E n \in DropSizes :
      \E acceptedFiles \in [1..n -> UploadFiles], ids \in [1..n -> Ids] :
        LET newImages ==
              [k \in 1..n |-> [name |-> acceptedFiles[k].name,
                               data |-> acceptedFiles[k].data,
                               preview |-> nextURL + k - 1,
                               id |-> ids[k]]]
        IN  /\ nextURL + n - 1 <= MaxURLs
            /\ images' = images \o newImages
            /\ objectURLs' = objectURLs \cup {nextURL + k - 1 : k \in 1..n}
            /\ nextURL' = nextURL + n
            /\ UNCHANGED <<mapping, revokeLog>>
            /\ UNCHANGED <<procVars, csvVars>>

\* lines 37-43: the preview of the first image with the id is revoked, every
\* image with the id is filtered out
RemoveImage ==
    \E id \in {images[k].id : k \in 1..Len(images)} :
        LET imageToRemove ==
              images[CHOOSE k \in 1..Len(images) :
                       images[k].id = id /\ \A j \in 1..(k - 1) : images[j].id # id]
        IN  /\ objectURLs' = objectURLs \ {imageToRemove.preview}
            /\ revokeLog' = Append(revokeLog, imageToRemove.preview)
            /\ images' = SelectSeq(images, LAMBDA img : img.id # id)
            /\ UNCHANGED <<mapping, nextURL>>
            /\ UNCHANGED <<procVars, csvVars>>

\* lines 45-48, behind the Clear All button of line 96
RECURSIVE Previews(_)
Previews(imgs) ==
    IF imgs = <<>> THEN <<>> ELSE <<Head(imgs).preview>> \o Previews(Tail(imgs))

ClearAllImages ==
    /\ Len(images) > 0
    /\ objectURLs' = objectURLs \ Range(Previews(images))
    /\ revokeLog' = revokeLog \o Previews(images)
    /\ images' = <<>>
    /\ UNCHANGED <<mapping, nextURL>>
    /\ UNCHANGED <<procVars, csvVars>>

InitImageUpload ==
    /\ images = <<>>
    /\ mapping = <<>>
    /\ InitProcessor
    /\ InitCSV
    /\ InitUpload

NextUpload ==
    \/ OnDropImages
    \/ RemoveImage
    \/ ClearAllImages

SpecUpload == InitImageUpload /\ [][NextUpload]_vars

(***************************************************************************)
(* What the specification says, stated independently of the code.          *)
(***************************************************************************)
\* the stem of spec 4.2: the filename with its last '.' segment removed
ClaimStem(name) ==
    LET p == LastIndexOf(name, ".")
    IN  IF p = 0 THEN name ELSE SubSeq(name, 1, p - 1)

\* the four match rules of spec 4.2
ClaimMatches(m, name) ==
    \/ m.currentName = name
    \/ m.currentName = ClaimStem(name)
    \/ Includes(name, m.currentName)
    \/ Includes(ClaimStem(name), m.currentName)

\* the single linear scan of spec 4.2: position of the first entry that
\* satisfies any rule, 0 for "no match"
RECURSIVE ClaimFirstMatch(_, _)
ClaimFirstMatch(map, name) ==
    IF map = <<>> THEN 0
    ELSE IF ClaimMatches(Head(map), name) THEN 1
    ELSE LET r == ClaimFirstMatch(Tail(map), name)
         IN  IF r = 0 THEN 0 ELSE r + 1

ClaimBaseName(map, name) ==
    LET k == ClaimFirstMatch(map, name)
    IN  IF k = 0 THEN name ELSE map[k].newName

\* the extension of spec 4.3 step 2: the original extension lower-cased,
\* jpg when the original filename has none
ClaimExtension(name) ==
    LET p == LastIndexOf(name, ".")
        ext == SubSeq(name, p + 1, Len(name))
    IN  IF p = 0 \/ ext = <<>> THEN jpg ELSE ToLowerCase(ext)

HasExtension(name) ==
    LET p == LastIndexOf(name, ".") IN p > 0 /\ p < Len(name)

IsPrefix(s, t) == Len(s) <= Len(t) /\ SubSeq(t, 1, Len(s)) = s

Succeeded(results) == {k \in 1..Len(results) : results[k].status = "processed"}

RunEnded == pc = "idle" /\ i > 0

(***************************************************************************)
(* C1. Failure isolation: a failing image does not stop the run; when the  *)
(* run has ended every image has a result, failed with an error message    *)
(* exactly for the images whose decode or encode failed, succeeded with    *)
(* output bytes for every other image.                                     *)
(***************************************************************************)
FailureIsolation ==
    /\ \A k \in 1..Len(processed) :
         LET r == processed[k]
         IN  /\ r.originalFile = images[k]
             /\ r.status \in {"processed", "failed"}
             /\ r.status = "failed" <=> images[k].data # "ok"
             /\ r.status = "failed" => r.error # undefined /\ r.blob = NoBlob
             /\ r.status = "processed" => r.blob # NoBlob /\ r.error = undefined
    /\ RunEnded => /\ Len(processed) = Len(images)
                   /\ processedImages = processed
                   /\ ~isProcessing

FailureIsolationWitness ==
    /\ RunEnded
    /\ Len(processedImages) = 2
    /\ images[1].data = "corrupt"
    /\ images[2].data = "ok"
    /\ processedImages[1].status = "failed"
    /\ processedImages[1].error = "Processing failed"
    /\ processedImages[2].status = "processed"

(***************************************************************************)
(* C2. A run produces exactly one result per input image, in input order;  *)
(* an image that matches no mapping entry still gets a result, and the     *)
(* base name resolved for it is its original filename unchanged.           *)
(***************************************************************************)
OneResultPerImage ==
    /\ Len(processed) <= Len(images)
    /\ \A k \in 1..Len(processed) : processed[k].originalFile = images[k]
    /\ RunEnded =>
         /\ Len(processedImages) = Len(images)
         /\ \A k \in 1..Len(images) : processedImages[k].originalFile = images[k]
    /\ (pc = "decode" /\ ClaimFirstMatch(mapping, images[i].name) = 0) =>
         processedImage.newName = images[i].name
    /\ \A k \in 1..Len(processed) :
         ClaimFirstMatch(mapping, images[k].name) = 0 =>
           /\ IsPrefix(images[k].name, processed[k].newName)
           /\ "." \in Range(images[k].name) =>
                processed[k].newName = images[k].name

OneResultPerImageWitness ==
    /\ RunEnded
    /\ Len(images) = 2
    /\ Len(processedImages) = 2
    /\ ClaimFirstMatch(mapping, images[2].name) = 0
    /\ ClaimFirstMatch(mapping, images[1].name) # 0
    /\ processedImages[2].newName = images[2].name
    /\ processedImages[2].status = "processed"

(***************************************************************************)
(* C3. Within a run the status of a result changes exactly once, from      *)
(* pending to succeeded or to failed: a result is created pending, is      *)
(* committed only with a final status, and a final status never changes.   *)
(***************************************************************************)
ResultCreated == pc' = "decode" /\ pc # "decode"

StatusChangesOnce ==
    [][ /\ ResultCreated => processedImage'.status = "pending"
        /\ ~ResultCreated =>
             \/ processedImage'.status = processedImage.status
             \/ /\ processedImage.status = "pending"
                /\ processedImage'.status \in {"processed", "failed"}
        /\ \A k \in 1..Len(processed') :
             /\ processed'[k].status \in {"processed", "failed"}
             /\ k <= Len(processed) =>
                  processed'[k].status = processed[k].status
        /\ \A k \in 1..Len(processedImages') :
             processedImages'[k].status \in {"processed", "failed"}
      ]_vars

StatusChangesOnceWitness ==
    /\ pc = "delay"
    /\ Len(processed) = 2
    /\ processed[1].status = "processed"
    /\ processed[2].status = "failed"
    /\ processedImage = processed[2]

(***************************************************************************)
(* C4. Images are processed strictly in input order: item i+1 is not       *)
(* started before the result of item i is committed; the progress          *)
(* published after each item is the number of committed results over the   *)
(* number of images, never decreases during a run and is 100% when the     *)
(* last item is committed.                                                 *)
(***************************************************************************)
InOrderState ==
    /\ pc \in {"decode", "encode"} =>
         /\ Len(processed) = i - 1
         /\ processedImage.originalFile = images[i]
         /\ processedImage.status = "pending"
    /\ pc = "delay" => Len(processed) = i /\ processedImage = processed[i]
    /\ \A k \in 1..Len(processed) : processed[k].originalFile = images[k]
    /\ (isProcessing /\ Len(processed) > 0) =>
         /\ processedImages = processed
         /\ progress.num * Len(images) = 100 * Len(processed) * progress.den
    /\ (isProcessing /\ Len(processed) = 0) => progress.num = 0
    /\ (isProcessing /\ Len(processed) = Len(images)) =>
         progress.num = 100 * progress.den

InOrderProgress ==
    [][ /\ InOrderState'
        /\ isProcessing =>
             progress'.num * progress.den >= progress.num * progress'.den
        /\ Len(processed') > Len(processed) =>
             /\ Len(processed') = Len(processed) + 1
             /\ progress' # progress
      ]_vars

InOrderProgressWitness ==
    /\ pc = "delay"
    /\ isProcessing
    /\ Len(images) = 2
    /\ Len(processed) = 2
    /\ processed[1].status = "failed"
    /\ progress = [num |-> 200, den |-> 2]

(***************************************************************************)
(* C5. A CSV load that fails with a ParseError leaves the installed        *)
(* mapping unchanged; the installed mapping is always the complete result  *)
(* of the last successful parse, or empty after the last clear; no partial *)
(* list is installed.                                                      *)
(***************************************************************************)
LoadCompletes(k) ==
    Len(readers') < Len(readers) /\ readers' = RemoveAt(readers, k)

MappingSurvivesParseError ==
    [][ /\ \A k \in 1..Len(readers) :
             LoadCompletes(k) =>
               IF parseCSV(readers[k]).threw
               THEN mapping' = mapping /\ error' = parseCSV(readers[k]).message
               ELSE mapping' = parseCSV(readers[k]).mappings
        /\ mapping' # mapping =>
             \/ mapping' = <<>> /\ csvFile' = NoFile /\ readers' = readers
             \/ \E k \in 1..Len(readers) :
                  /\ LoadCompletes(k)
                  /\ ~parseCSV(readers[k]).threw
                  /\ mapping' = parseCSV(readers[k]).mappings
      ]_vars

MappingKeptAfterParseError ==
    /\ readers = <<>>
    /\ csvFile # NoFile
    /\ parseCSV(csvFile.text).threw
    /\ error = parseCSV(csvFile.text).message
    /\ mapping # <<>>

(***************************************************************************)
(* C6. parse never returns an empty list: it fails with a ParseError when  *)
(* fewer than 2 non-blank lines remain, and it fails with a ParseError     *)
(* when every data row is dropped.                                         *)
(***************************************************************************)
ClaimNonBlankLines(text) ==
    Len(SelectSeq(Split(text, "\n"),
                  LAMBDA line : \E k \in 1..Len(line) : line[k] \notin WhiteSpace))

ParseNeverReturnsEmpty ==
    readers = <<>> =>
      /\ error # "null" \/ mapping # <<>>
      /\ ClaimNonBlankLines(csvFile.text) < 2 => error # "null"

(***************************************************************************)
(* C10. After any sequence of add, remove and clear-all operations the     *)
(* previews created and not yet released are exactly the previews of the   *)
(* images in the working set, and no preview is released twice.            *)
(***************************************************************************)
PreviewsReleasedExactly ==
    /\ objectURLs = {images[k].preview : k \in 1..Len(images)}
    /\ \A a, b \in 1..Len(revokeLog) : a # b => revokeLog[a] # revokeLog[b]

(***************************************************************************)
(* C7. Name resolution is one linear scan: the first entry in list order   *)
(* whose currentName equals the filename or the stem, or is a substring of *)
(* either, decides the name; an earlier substring match wins over a later  *)
(* exact match; there is no match only when no entry satisfies a rule.     *)
(***************************************************************************)
FirstMatchWins ==
    pc = "decode" =>
      /\ processedImage.newName = ClaimBaseName(mapping, images[i].name)
      /\ ClaimFirstMatch(mapping, images[i].name) = FindIndex(mapping, images[i].name)

FirstMatchWinsWitness ==
    /\ pc = "decode"
    /\ Len(mapping) = 2
    /\ mapping[2].currentName = images[i].name
    /\ mapping[1].currentName # images[i].name
    /\ mapping[1].currentName # ClaimStem(images[i].name)
    /\ Includes(images[i].name, mapping[1].currentName)
    /\ mapping[1].newName # mapping[2].newName
    /\ processedImage.newName = mapping[1].newName

(***************************************************************************)
(* C8. The resolvedName of every result has a non-empty extension: when    *)
(* the resolved name contains no '.', '.' and the lower-cased extension of *)
(* the original file are appended, jpg when the original has no extension. *)
(***************************************************************************)
ResolvedNameHasExtension ==
    \A k \in 1..Len(processedImages) :
      LET r == processedImages[k]
          name == r.originalFile.name
          base == ClaimBaseName(mapping, name)
      IN  /\ HasExtension(r.newName)
          /\ "." \notin Range(base) =>
               r.newName = base \o <<".">> \o ClaimExtension(name)

(***************************************************************************)
(* C9. Downloads expose only succeeded results: downloadOne saves the      *)
(* (resolvedName, outputBytes) of a succeeded result only; the archive of  *)
(* downloadAllAsArchive has one (resolvedName, outputBytes) entry for      *)
(* every succeeded result and none for a failed one; with no succeeded     *)
(* result nothing is saved.                                                *)
(***************************************************************************)
SavedFromSucceeded(save, results) ==
    /\ Succeeded(results) # {}
    /\ save.kind = "file" =>
         \E k \in Succeeded(results) :
           save.name = results[k].newName /\ save.blob = results[k].blob
    /\ save.kind = "zip" =>
         /\ Len(save.files) = Cardinality(Succeeded(results))
         /\ \A k \in Succeeded(results) :
              \E f \in 1..Len(save.files) :
                save.files[f] = [name |-> results[k].newName,
                                 blob |-> results[k].blob]
         /\ \A f \in 1..Len(save.files) :
              \E k \in Succeeded(results) :
                save.files[f] = [name |-> results[k].newName,
                                 blob |-> results[k].blob]

DownloadsExposeSucceeded ==
    [][lastSave' # lastSave => SavedFromSucceeded(lastSave', processedImages)]_vars


(***************************************************************************)
(* C11. Delimiter detection: parse splits the header and every data row by *)
(* the candidate among ',', ';', tab and '|' that occurs most often in the *)
(* header line, ties broken in that order; a header such as 'a;b;c' with   *)
(* no comma is split on ';' and its rows yield mapping entries.            *)
(***************************************************************************)
ClaimCandidates == <<",", ";", "\t", "|">>

Occurrences(line, c) == Cardinality({k \in 1..Len(line) : line[k] = c})

\* the first candidate, in candidate order, with the highest count
ClaimDelimiter(header) ==
    LET best == CHOOSE k \in 1..Len(ClaimCandidates) :
                  /\ \A j \in 1..Len(ClaimCandidates) :
                       Occurrences(header, ClaimCandidates[j])
                         <= Occurrences(header, ClaimCandidates[k])
                  /\ \A j \in 1..(k - 1) :
                       Occurrences(header, ClaimCandidates[j])
                         < Occurrences(header, ClaimCandidates[k])
    IN  ClaimCandidates[best]

ClaimColumns(line, d) ==
    LET columns == Split(line, d)
    IN  [k \in 1..Len(columns) |-> Trim(columns[k])]

\* the rows' mappings when every row is split by d
RECURSIVE ClaimRowMappings(_, _, _, _)
ClaimRowMappings(rows, d, useCurrentIndex, useNewIndex) ==
    IF rows = <<>> THEN <<>>
    ELSE LET columns == ClaimColumns(Head(rows), d)
             currentName == Column(columns, useCurrentIndex)
             newName == Column(columns, useNewIndex)
             rest == ClaimRowMappings(Tail(rows), d, useCurrentIndex, useNewIndex)
         IN  IF Len(columns) >= 2 /\ currentName # <<>> /\ newName # <<>>
             THEN <<[currentName |-> currentName, newName |-> newName]>> \o rest
             ELSE rest

\* the parse of a text of at least 2 non-blank lines, with the header and
\* the rows split by the detected delimiter
ClaimParse(text) ==
    LET lines == SelectSeq(Split(text, "\n"), LAMBDA line : Trim(line) # <<>>)
        d == ClaimDelimiter(lines[1])
        fields == ClaimColumns(lines[1], d)
        headers == [k \in 1..Len(fields) |-> ToLowerCase(fields[k])]
        currentNameIndex == CurrentNameIndex(headers)
        newNameIndex == NewNameIndex(headers)
    IN  IF (currentNameIndex = 0 \/ newNameIndex = 0) /\ Len(headers) < 2
        THEN Threw("CSV must have at least 2 columns")
        ELSE Returned(ClaimRowMappings(
                        Tail(lines), d,
                        IF currentNameIndex # 0 THEN currentNameIndex ELSE 1,
                        IF newNameIndex # 0 THEN newNameIndex ELSE 2))

DelimiterDetected ==
    (readers = <<>> /\ ClaimNonBlankLines(csvFile.text) >= 2) =>
      IF ClaimParse(csvFile.text).threw
      THEN error # "null"
      ELSE error = "null" /\ mapping = ClaimParse(csvFile.text).mappings


(***************************************************************************)
(* C12. The encoding format requested for an image is derived from the     *)
(* extension of its resolved (output) name, jpg mapped to jpeg and every   *)
(* other extension to itself, so the format of the output bytes agrees     *)
(* with the extension of the resolved name.                                *)
(***************************************************************************)
ClaimFormat(resolvedName) ==
    LET p == LastIndexOf(resolvedName, ".")
        ext == ToLowerCase(SubSeq(resolvedName, p + 1, Len(resolvedName)))
    IN  IF ext = jpg THEN jpeg ELSE ext

FormatFollowsResolvedName ==
    \A k \in Succeeded(processedImages) :
      processedImages[k].blob.type = ClaimFormat(processedImages[k].newName)


(***************************************************************************)
(* C13. Run lifecycle: when every decode and encode call completes, a      *)
(* started run always ends; the in-progress flag is true from the start of *)
(* the run until after the last result is committed and false once the run *)
(* has ended, whatever fails, and then the published results hold one      *)
(* entry per image, none pending.                                          *)
(***************************************************************************)
RunActive == pc # "idle"

RunLifecycle ==
    /\ [](RunActive => isProcessing)
    /\ [](~RunActive => ~isProcessing)
    /\ [](RunEnded =>
            /\ Len(processedImages) = Len(images)
            /\ \A k \in 1..Len(processedImages) :
                 processedImages[k].status \in {"processed", "failed"})
    /\ (isProcessing ~> (RunEnded /\ ~isProcessing))

RunLifecycleWitness ==
    /\ RunEnded
    /\ ~isProcessing
    /\ Len(images) = 2
    /\ images[1].data = "unencodable"
    /\ images[2].data = "corrupt"
    /\ Len(processedImages) = 2
    /\ processedImages[1].status = "failed"
    /\ processedImages[2].status = "failed"

=============================================================================
